---- MODULE Spec2Model ----
(***************************************************************************)
(* Orders microservice: the in-memory order store behind the /api/orders   *)
(* router (src/unnamed/part_001).  The state is the module-level array     *)
(* `orders`; the five route handlers are the operations.                   *)
(*                                                                         *)
(* Two specifications are given over the same handler code:                *)
(*   Spec      each handler invocation is one step (sequential requests);  *)
(*   SpecConc  several requests are in flight, each handler advances       *)
(*             statement by statement on the single event-loop thread.     *)
(*                                                                         *)
(* Abstractions: prices are whole numbers (cents) where the routes use     *)
(* IEEE doubles; uuidv4() is a generator of never-repeating identifiers;   *)
(* an ISO-8601 timestamp is its tuple of zero-padded digit fields.         *)
(***************************************************************************)
EXTENDS Integers, Sequences, FiniteSets, TLC

\* ------------------------------------------------------------------ bounds
\* Number of identifiers uuidv4() hands out in a run (bounds the creates).
MaxIds == 2
\* Last instant of the millisecond clock.
MaxClock == 1
\* Largest page / limit query value that is tried.
MaxPage == 2
\* Clients that send requests at the same time (SpecConc).
NumClients == 2

\* ------------------------------------------------------- program constants
\* limit = 10 when the query carries none.
DefaultLimit == 10
\* page = 1 when the query carries none.
DefaultPage == 1
\* An id no order ever carries ('non-existent' in the tests).
NonExistentId == 0

\* JavaScript's undefined: a missing body field or query parameter.
Absent == "undefined"

validStatuses == <<"pending", "processing", "shipped", "delivered", "cancelled">>

ValidStatusSet == {validStatuses[i] : i \in 1..Len(validStatuses)}

\* ------------------------------------------------------------------- state
VARIABLES
    orders,     \* the module-level array of stored orders, in insertion order
    nextId,     \* uuid generator: the next identifier never handed out before
    clock,      \* the instant new Date() read last
    last,       \* Spec: the last request handled and the response it got
    reqs,       \* SpecConc: the requests in flight, one per client
    running     \* SpecConc: the request whose handler holds the event loop

vars == <<orders, nextId, clock, last, reqs, running>>

\* ------------------------------------------------------------ pure helpers
Min(a, b) == IF a < b THEN a ELSE b

Max(a, b) == IF a > b THEN a ELSE b

\* Date.prototype.toISOString: fixed-width, zero-padded fields, most
\* significant first (here two decimal fields of the millisecond count).
toISOString(t) == <<t \div 10, t % 10>>

\* String comparison of two timestamps (code-unit order, left to right).
RECURSIVE LexLeq(_, _)
LexLeq(a, b) ==
    IF a = <<>> THEN TRUE
    ELSE IF b = <<>> THEN FALSE
    ELSE IF Head(a) < Head(b) THEN TRUE
    ELSE IF Head(a) > Head(b) THEN FALSE
    ELSE LexLeq(Tail(a), Tail(b))

\* Mutant of Slice: the end index taken as inclusive.
SliceThroughEnd(s, start, end) ==
    LET k    == Len(s)
        from == IF start < 0 THEN Max(k + start, 0) ELSE Min(start, k)
        to   == IF end < 0 THEN Max(k + end, 0) ELSE Min(end + 1, k)
    IN  SubSeq(s, from + 1, to)

\* Array.prototype.slice(start, end) on a 0-based array: negative indices
\* count from the end, both are clipped to the array's bounds.
Slice(s, start, end) ==
    LET k    == Len(s)
        from == IF start < 0 THEN Max(k + start, 0) ELSE Min(start, k)
        to   == IF end < 0 THEN Max(k + end, 0) ELSE Min(end, k)
    IN  SubSeq(s, from + 1, to)

\* Math.ceil(n / d) for n >= 0, d > 0.
Ceil(n, d) == (n + d - 1) \div d

\* Array.prototype.findIndex(o => o.id === id), 1-based here; 0 is JS's -1.
FindIndex(s, id) ==
    IF \E i \in 1..Len(s) : s[i].id = id
    THEN CHOOSE i \in 1..Len(s) :
            /\ s[i].id = id
            /\ \A j \in 1..(i - 1) : s[j].id # id
    ELSE 0

\* Mutant of Splice: splice(index) without the count removes the tail too.
SpliceToEnd(s, index) == SubSeq(s, 1, index - 1)

\* Array.prototype.splice(index, 1): the array without the element at index.
Splice(s, index) == SubSeq(s, 1, index - 1) \o SubSeq(s, index + 1, Len(s))

\* Mutant of Total: the quantity is left out of the sum.
RECURSIVE TotalOfPrices(_)
TotalOfPrices(items) ==
    IF items = <<>> THEN 0
    ELSE TotalOfPrices(SubSeq(items, 1, Len(items) - 1)) + items[Len(items)].price

\* items.reduce((sum, item) => sum + item.price * item.quantity, 0)
RECURSIVE Total(_)
Total(items) ==
    IF items = <<>> THEN 0
    ELSE Total(SubSeq(items, 1, Len(items) - 1))
         + items[Len(items)].price * items[Len(items)].quantity

\* {...a, ...b}: object spread, later keys override earlier ones.
Merge(a, b) ==
    [k \in (DOMAIN a) \cup (DOMAIN b) |-> IF k \in DOMAIN b THEN b[k] ELSE a[k]]

\* ------------------------------------------------------- schema validation
\* One entry of error.details: the key (and item index) and the rule broken.
Detail(key, index, field, type) ==
    [key |-> key, index |-> index, field |-> field, type |-> type]

\* Joi.string().required() on field f of object o.
StringRequired(o, key, index, f) ==
    IF f \notin DOMAIN o THEN <<Detail(key, index, f, "any.required")>>
    ELSE IF o[f] = "" THEN <<Detail(key, index, f, "string.empty")>>
    ELSE <<>>

\* Joi.number().integer().min(1).required()
QuantityRule(o, index) ==
    IF "quantity" \notin DOMAIN o
    THEN <<Detail("items", index, "quantity", "any.required")>>
    ELSE IF o.quantity < 1
    THEN <<Detail("items", index, "quantity", "number.min")>>
    ELSE <<>>

\* Joi.number().positive().required()
PriceRule(o, index) ==
    IF "price" \notin DOMAIN o
    THEN <<Detail("items", index, "price", "any.required")>>
    ELSE IF o.price <= 0
    THEN <<Detail("items", index, "price", "number.positive")>>
    ELSE <<>>

\* The item schema, keys in schema order; index is the 0-based array index.
ItemViolations(o, index) ==
    StringRequired(o, "items", index, "productId")
    \o QuantityRule(o, index)
    \o PriceRule(o, index)

RECURSIVE ItemsViolations(_, _)
ItemsViolations(items, n) ==
    IF n = 0 THEN <<>>
    ELSE ItemsViolations(items, n - 1) \o ItemViolations(items[n], n - 1)

\* Mutant of ItemsRule: the array schema without .min(1).
ItemsRuleNoMin(b) ==
    IF "items" \notin DOMAIN b THEN <<Detail("items", -1, "", "any.required")>>
    ELSE ItemsViolations(b.items, Len(b.items))

\* Joi.array().items(...).min(1).required(): the items, then the length rule.
ItemsRule(b) ==
    IF "items" \notin DOMAIN b THEN <<Detail("items", -1, "", "any.required")>>
    ELSE ItemsViolations(b.items, Len(b.items))
         \o (IF Len(b.items) < 1
             THEN <<Detail("items", -1, "", "array.min")>>
             ELSE <<>>)

\* Joi.object({street, city, zipCode, country}).required()
AddressRule(b) ==
    IF "shippingAddress" \notin DOMAIN b
    THEN <<Detail("shippingAddress", -1, "", "any.required")>>
    ELSE StringRequired(b.shippingAddress, "shippingAddress", -1, "street")
         \o StringRequired(b.shippingAddress, "shippingAddress", -1, "city")
         \o StringRequired(b.shippingAddress, "shippingAddress", -1, "zipCode")
         \o StringRequired(b.shippingAddress, "shippingAddress", -1, "country")

SchemaKeys == {"customerId", "items", "shippingAddress"}

\* Keys the schema does not list are rejected (Joi's allowUnknown is off).
UnknownRule(b) ==
    IF (DOMAIN b) \subseteq SchemaKeys THEN <<>>
    ELSE <<Detail("", -1, "", "object.unknown")>>

\* Every constraint of orderSchema that body b violates, in schema order.
Violations(b) ==
    StringRequired(b, "customerId", -1, "customerId")
    \o ItemsRule(b)
    \o AddressRule(b)
    \o UnknownRule(b)

\* orderSchema.validate(req.body) is called without options, so Joi's
\* default abortEarly: true applies: validation stops at the first error.
abortEarly == TRUE

\* orderSchema.validate(b): {error, value}; error.details is <<>> for none.
validate(b) ==
    LET all == Violations(b)
    IN  [details |-> IF abortEarly /\ all # <<>> THEN <<Head(all)>> ELSE all,
         value   |-> b]

\* ------------------------------------------------------------------ inputs
ValidAddress ==
    [street |-> "123 Main St", city |-> "New York",
     zipCode |-> "10001", country |-> "USA"]

Item(p, q, pr) == [productId |-> p, quantity |-> q, price |-> pr]

\* Request bodies that satisfy orderSchema.
ValidBodies ==
    { [customerId |-> "customer-1",
       items |-> <<Item("product-1", 2, 3), Item("product-2", 1, 4)>>,
       shippingAddress |-> ValidAddress] }

\* Request bodies that break one or several constraints of orderSchema.
InvalidBodies ==
    { [customerId |-> "customer-123"],
      [customerId |-> "customer-123", items |-> <<>>,
       shippingAddress |-> ValidAddress],
      [items |-> <<>>],
      [items |-> <<Item("product-1", 1, 0)>>, shippingAddress |-> ValidAddress],
      [customerId |-> "", items |-> <<Item("product-1", 0, 2)>>,
       shippingAddress |-> [street |-> "123 Main St", zipCode |-> "10001",
                            country |-> "USA"]],
      [customerId |-> "customer-1",
       items |-> <<Item("product-1", 2, 3), [productId |-> "product-2"]>>,
       shippingAddress |-> ValidAddress],
      [id |-> "chosen-by-client", customerId |-> "customer-1",
       items |-> <<Item("product-1", 2, 3)>>,
       shippingAddress |-> ValidAddress] }

RequestBodies == ValidBodies \cup InvalidBodies

\* req.params.id: every identifier the generator can hand out, and one it
\* never does.
IdParams == {NonExistentId} \cup (1..MaxIds)

\* req.body.status of a PUT: the listed values, an unlisted one, none.
StatusInputs == ValidStatusSet \cup {"invalid-status", Absent}

\* req.query of GET /: page, limit and status are each optional.
Query(p, l, s) ==
    [k \in (IF p = <<>> THEN {} ELSE {"page"})
           \cup (IF l = <<>> THEN {} ELSE {"limit"})
           \cup (IF s = <<>> THEN {} ELSE {"status"})
       |-> IF k = "page" THEN p[1] ELSE IF k = "limit" THEN l[1] ELSE s[1]]

Optional(S) == {<<>>} \cup {<<x>> : x \in S}

Queries ==
    { Query(p, l, s) : p \in Optional(1..MaxPage), l \in Optional(1..MaxPage),
                       s \in Optional({"", "shipped"}) }

\* ------------------------------------------------------- handler fragments
\* The order object literal of POST /: id, then the validated body spread
\* over it, then status, total and the two timestamps.
NewOrder(id, value, t1, t2) ==
    Merge(Merge([id |-> id], value),
          [status    |-> "pending",
           total     |-> Total(value.items),
           createdAt |-> toISOString(t1),
           updatedAt |-> toISOString(t2)])

\* if (status): undefined and the empty string are falsy.
Truthy(q, k) == k \in DOMAIN q /\ q[k] # ""

\* Mutant of Filtered: the status filter is never applied.
FilteredNever(s, q) == s

\* filteredOrders of GET /.
Filtered(s, q) ==
    IF Truthy(q, "status")
    THEN SelectSeq(s, LAMBDA order : order.status = q.status)
    ELSE s

PageOf(q) == IF "page" \in DOMAIN q THEN q.page ELSE DefaultPage

LimitOf(q) == IF "limit" \in DOMAIN q THEN q.limit ELSE DefaultLimit

\* The JSON body GET / answers with.
ListResponse(s, q) ==
    LET filteredOrders == Filtered(s, q)
        startIndex     == (PageOf(q) - 1) * LimitOf(q)
        endIndex       == PageOf(q) * LimitOf(q)
    IN  [orders     |-> Slice(filteredOrders, startIndex, endIndex),
         pagination |-> [page  |-> PageOf(q),
                         limit |-> LimitOf(q),
                         total |-> Len(filteredOrders),
                         pages |-> Ceil(Len(filteredOrders), LimitOf(q))]]

\* Mutant of SetStatus: a strict lifecycle, the status only moves forward.
SetStatusForward(s, orderIndex, status) ==
    LET rank(st) == CHOOSE i \in 1..Len(validStatuses) : validStatuses[i] = st
    IN  IF rank(status) < rank(s[orderIndex].status)
        THEN s
        ELSE [s EXCEPT ![orderIndex].status = status]

\* orders[orderIndex].status = status
SetStatus(s, orderIndex, status) == [s EXCEPT ![orderIndex].status = status]

\* Mutant of SetUpdatedAt: the update stamps createdAt as well.
SetBothTimestamps(s, orderIndex, t) ==
    [s EXCEPT ![orderIndex].updatedAt = toISOString(t),
              ![orderIndex].createdAt = toISOString(t)]

\* orders[orderIndex].updatedAt = new Date().toISOString()
SetUpdatedAt(s, orderIndex, t) ==
    [s EXCEPT ![orderIndex].updatedAt = toISOString(t)]

\* What new Date() can read when the clock was last read at t: the clock
\* never runs backwards.
Later(t) == t..MaxClock

NotFound == [error |-> "Order not found"]

\* What one run of a handler does: the array it leaves and the response.
Result(s, code, json) == [orders |-> s, code |-> code, json |-> json]

\* POST /api/orders on array s; id is what uuidv4() returns, t1 and t2 are
\* what the two new Date() calls read.  Nothing in the try block throws on
\* these inputs, so the catch branch (500) is never taken.
PostResult(s, id, t1, t2, body) ==
    LET v     == validate(body)
        order == NewOrder(id, v.value, t1, t2)
    IN  IF v.details # <<>>
        THEN Result(s, 400, [error   |-> "Validation failed",
                             details |-> v.details])
        ELSE Result(Append(s, order), 201, order)

\* GET /api/orders
ListResult(s, query) == Result(s, 200, ListResponse(s, query))

\* GET /api/orders/:id
GetResult(s, id) ==
    LET orderIndex == FindIndex(s, id)
    IN  IF orderIndex = 0
        THEN Result(s, 404, NotFound)
        ELSE Result(s, 200, s[orderIndex])

\* Mutant of PutResult: the id is looked up before the status is checked.
PutResultLookupFirst(s, id, status, t) ==
    LET orderIndex == FindIndex(s, id)
        updated    == SetUpdatedAt(SetStatus(s, orderIndex, status),
                                   orderIndex, t)
    IN  IF orderIndex = 0
        THEN Result(s, 404, [error |-> "Order not found"])
        ELSE IF status \notin ValidStatusSet
        THEN Result(s, 400, [error         |-> "Invalid status",
                             validStatuses |-> validStatuses])
        ELSE Result(updated, 200, updated[orderIndex])

\* Mutant of PutResult: the status is stored without the membership check.
PutResultUnchecked(s, id, status, t) ==
    LET orderIndex == FindIndex(s, id)
        updated    == SetUpdatedAt(SetStatus(s, orderIndex, status),
                                   orderIndex, t)
    IN  IF orderIndex = 0
        THEN Result(s, 404, [error |-> "Order not found"])
        ELSE Result(updated, 200, updated[orderIndex])

\* PUT /api/orders/:id/status; t is what new Date() reads.
PutResult(s, id, status, t) ==
    LET orderIndex == FindIndex(s, id)
        updated    == SetUpdatedAt(SetStatus(s, orderIndex, status),
                                   orderIndex, t)
    IN  IF status \notin ValidStatusSet
        THEN Result(s, 400, [error         |-> "Invalid status",
                             validStatuses |-> validStatuses])
        ELSE IF orderIndex = 0
        THEN Result(s, 404, NotFound)
        ELSE Result(updated, 200, updated[orderIndex])

\* DELETE /api/orders/:id
DeleteResult(s, id) ==
    LET orderIndex == FindIndex(s, id)
    IN  IF orderIndex = 0
        THEN Result(s, 404, NotFound)
        ELSE Result(Splice(s, orderIndex), 200,
                    [message |-> "Order deleted successfully",
                     order   |-> s[orderIndex]])

\* ------------------------------------------ Spec: one step per invocation
\* No response is on its way to the client.
NoCall == [op |-> "none"]

Init ==
    /\ orders = <<>>
    /\ nextId = 1
    /\ clock = 0
    /\ last = NoCall
    /\ reqs = <<>>
    /\ running = 0

\* router.post('/')
PostOrder(body) ==
    /\ last = NoCall
    /\ \E t1 \in Later(clock) : \E t2 \in Later(t1) :
          LET r == PostResult(orders, nextId, t1, t2, body)
          IN  /\ r.code = 201 => nextId <= MaxIds
              /\ orders' = r.orders
              /\ nextId' = IF r.code = 201 THEN nextId + 1 ELSE nextId
              /\ clock' = IF r.code = 201 THEN t2 ELSE clock
              /\ last' = [op |-> "create", body |-> body,
                          code |-> r.code, json |-> r.json]
    /\ UNCHANGED <<reqs, running>>

\* router.get('/')
GetOrders(query) ==
    /\ last = NoCall
    /\ LET r == ListResult(orders, query)
       IN  /\ orders' = r.orders
           /\ last' = [op |-> "list", query |-> query,
                       code |-> r.code, json |-> r.json]
    /\ UNCHANGED <<nextId, clock, reqs, running>>

\* router.get('/:id')
GetOrder(id) ==
    /\ last = NoCall
    /\ LET r == GetResult(orders, id)
       IN  /\ orders' = r.orders
           /\ last' = [op |-> "get", id |-> id,
                       code |-> r.code, json |-> r.json]
    /\ UNCHANGED <<nextId, clock, reqs, running>>

\* router.put('/:id/status')
PutStatus(id, status) ==
    /\ last = NoCall
    /\ \E t \in Later(clock) :
          LET r == PutResult(orders, id, status, t)
          IN  /\ orders' = r.orders
              /\ clock' = IF r.code = 200 THEN t ELSE clock
              /\ last' = [op |-> "update", id |-> id, status |-> status,
                          code |-> r.code, json |-> r.json]
    /\ UNCHANGED <<nextId, reqs, running>>

\* router.delete('/:id')
DeleteOrder(id) ==
    /\ last = NoCall
    /\ LET r == DeleteResult(orders, id)
       IN  /\ orders' = r.orders
           /\ last' = [op |-> "delete", id |-> id,
                       code |-> r.code, json |-> r.json]
    /\ UNCHANGED <<nextId, clock, reqs, running>>

\* res.json(...) has reached the client; the next request can be sent.
Deliver ==
    /\ last # NoCall
    /\ last' = NoCall
    /\ UNCHANGED <<orders, nextId, clock, reqs, running>>

Next ==
    \/ \E body \in RequestBodies : PostOrder(body)
    \/ \E query \in Queries : GetOrders(query)
    \/ \E id \in IdParams : GetOrder(id)
    \/ \E id \in IdParams, status \in StatusInputs : PutStatus(id, status)
    \/ \E id \in IdParams : DeleteOrder(id)
    \/ Deliver

Spec == Init /\ [][Next]_vars

\* ------------------- SpecConc: handlers statement by statement, in parallel
(***************************************************************************)
(* Several clients have requests under way.  Node runs JavaScript on one   *)
(* thread: a handler, once invoked, runs until it returns or reaches an    *)
(* await; only then is another handler invoked.  `running` is the client   *)
(* whose handler is on the stack (0: none).  A request that waits in the   *)
(* event queue does not touch the store, so its dispatch and the           *)
(* invocation of its handler are one step (Start).                         *)
(***************************************************************************)
Clients == 1..NumClients

Idle == [pc |-> "idle"]

\* Mutant of SuspensionPoints: an await between findIndex and the writes of
\* the PUT handler.
SuspendBeforeWrite == {"u_status"}

\* The statements before which a handler gives up the thread.  None: the
\* GET, PUT and DELETE handlers are synchronous functions, and the async
\* POST handler contains no await.
SuspensionPoints == {}

\* The requests the clients send.
ConcRequests ==
    {[op |-> "create", body |-> b, pc |-> "p_validate"] :
        b \in ValidBodies \cup {[customerId |-> "customer-123"]}}
    \cup {[op |-> "list", query |-> q, pc |-> "l_filter"] :
        q \in {<<>>, [status |-> "shipped"]}}
    \cup {[op |-> "get", id |-> id, pc |-> "g_find"] : id \in IdParams}
    \cup {[op |-> "update", id |-> id, status |-> st, pc |-> "u_check"] :
        id \in IdParams, st \in {"shipped", "cancelled", "invalid-status"}}
    \cup {[op |-> "delete", id |-> id, pc |-> "d_find"] : id \in IdParams}

InitConc ==
    /\ orders = <<>>
    /\ nextId = 1
    /\ clock = 0
    /\ last = NoCall
    /\ reqs = [c \in Clients |-> Idle]
    /\ running = 0

\* Client c's handler can execute its next statement.
CanRun(c) ==
    \/ running = c
    \/ running = 0 /\ reqs[c].pc \in SuspensionPoints

\* Client c's handler moves on as r (Idle: it has responded and returned).
Proceed(c, r) ==
    /\ reqs' = [reqs EXCEPT ![c] = r]
    /\ running' = IF r.pc = "idle" \/ r.pc \in SuspensionPoints THEN 0 ELSE c
    /\ UNCHANGED last

\* Express invokes the handler of a request of client c.
Start(c, request) ==
    /\ reqs[c] = Idle
    /\ running = 0
    /\ (request.op = "create" /\ validate(request.body).details = <<>>)
          => nextId <= MaxIds
    /\ reqs' = [reqs EXCEPT ![c] = request]
    /\ running' = c
    /\ UNCHANGED <<orders, nextId, clock, last>>

\* POST: orderSchema.validate(req.body); if (error) return 400
PostValidate(c) ==
    /\ CanRun(c)
    /\ reqs[c].pc = "p_validate"
    /\ LET v == validate(reqs[c].body)
       IN  IF v.details # <<>>
           THEN Proceed(c, Idle)
           ELSE Proceed(c, [op |-> "create", value |-> v.value, pc |-> "p_build"])
    /\ UNCHANGED <<orders, nextId, clock>>

\* POST: const order = { id: uuidv4(), ...value, status, total, ... }
PostBuild(c) ==
    /\ CanRun(c)
    /\ reqs[c].pc = "p_build"
    /\ \E t1 \in Later(clock) : \E t2 \in Later(t1) :
          /\ Proceed(c, [op |-> "create", pc |-> "p_push",
                         order |-> NewOrder(nextId, reqs[c].value, t1, t2)])
          /\ clock' = t2
    /\ nextId' = nextId + 1
    /\ UNCHANGED orders

\* POST: orders.push(order)
PostPush(c) ==
    /\ CanRun(c)
    /\ reqs[c].pc = "p_push"
    /\ orders' = Append(orders, reqs[c].order)
    /\ Proceed(c, [reqs[c] EXCEPT !.pc = "p_respond"])
    /\ UNCHANGED <<nextId, clock>>

\* POST: res.status(201).json(order)
PostRespond(c) ==
    /\ CanRun(c)
    /\ reqs[c].pc = "p_respond"
    /\ Proceed(c, Idle)
    /\ UNCHANGED <<orders, nextId, clock>>

\* GET /: filteredOrders = orders or orders.filter(...)
ListFilter(c) ==
    /\ CanRun(c)
    /\ reqs[c].pc = "l_filter"
    /\ Proceed(c, [op |-> "list", query |-> reqs[c].query, pc |-> "l_respond",
                   filteredOrders |-> Filtered(orders, reqs[c].query)])
    /\ UNCHANGED <<orders, nextId, clock>>

\* GET /: slice and res.json({orders, pagination})
ListRespond(c) ==
    /\ CanRun(c)
    /\ reqs[c].pc = "l_respond"
    /\ Proceed(c, Idle)
    /\ UNCHANGED <<orders, nextId, clock>>

\* GET /:id: orders.find(...); if (!order) return 404
GetFind(c) ==
    /\ CanRun(c)
    /\ reqs[c].pc = "g_find"
    /\ LET orderIndex == FindIndex(orders, reqs[c].id)
       IN  IF orderIndex = 0
           THEN Proceed(c, Idle)
           ELSE Proceed(c, [op |-> "get", id |-> reqs[c].id, pc |-> "g_respond",
                            order |-> orders[orderIndex]])
    /\ UNCHANGED <<orders, nextId, clock>>

\* GET /:id: res.json(order)
GetRespond(c) ==
    /\ CanRun(c)
    /\ reqs[c].pc = "g_respond"
    /\ Proceed(c, Idle)
    /\ UNCHANGED <<orders, nextId, clock>>

\* PUT: if (!validStatuses.includes(status)) return 400
PutCheck(c) ==
    /\ CanRun(c)
    /\ reqs[c].pc = "u_check"
    /\ IF reqs[c].status \notin ValidStatusSet
       THEN Proceed(c, Idle)
       ELSE Proceed(c, [reqs[c] EXCEPT !.pc = "u_find"])
    /\ UNCHANGED <<orders, nextId, clock>>

\* PUT: orderIndex = orders.findIndex(...); if (orderIndex === -1) return 404
PutFind(c) ==
    /\ CanRun(c)
    /\ reqs[c].pc = "u_find"
    /\ LET orderIndex == FindIndex(orders, reqs[c].id)
       IN  IF orderIndex = 0
           THEN Proceed(c, Idle)
           ELSE Proceed(c, [op |-> "update", id |-> reqs[c].id,
                            status |-> reqs[c].status, pc |-> "u_status",
                            orderIndex |-> orderIndex])
    /\ UNCHANGED <<orders, nextId, clock>>

\* PUT: orders[orderIndex].status = status (a TypeError, and with it the
\* end of the handler, when orders[orderIndex] is undefined)
PutSetStatus(c) ==
    /\ CanRun(c)
    /\ reqs[c].pc = "u_status"
    /\ IF reqs[c].orderIndex \in 1..Len(orders)
       THEN /\ orders' = SetStatus(orders, reqs[c].orderIndex, reqs[c].status)
            /\ Proceed(c, [reqs[c] EXCEPT !.pc = "u_updatedAt"])
       ELSE /\ Proceed(c, Idle)
            /\ UNCHANGED orders
    /\ UNCHANGED <<nextId, clock>>

\* PUT: orders[orderIndex].updatedAt = new Date().toISOString()
PutSetUpdatedAt(c) ==
    /\ CanRun(c)
    /\ reqs[c].pc = "u_updatedAt"
    /\ IF reqs[c].orderIndex \in 1..Len(orders)
       THEN \E t \in Later(clock) :
               /\ orders' = SetUpdatedAt(orders, reqs[c].orderIndex, t)
               /\ clock' = t
               /\ Proceed(c, [reqs[c] EXCEPT !.pc = "u_respond"])
       ELSE /\ Proceed(c, Idle)
            /\ UNCHANGED <<orders, clock>>
    /\ UNCHANGED nextId

\* PUT: res.json(orders[orderIndex])
PutRespond(c) ==
    /\ CanRun(c)
    /\ reqs[c].pc = "u_respond"
    /\ Proceed(c, Idle)
    /\ UNCHANGED <<orders, nextId, clock>>

\* DELETE: orderIndex = orders.findIndex(...); if (orderIndex === -1) return 404
DeleteFind(c) ==
    /\ CanRun(c)
    /\ reqs[c].pc = "d_find"
    /\ LET orderIndex == FindIndex(orders, reqs[c].id)
       IN  IF orderIndex = 0
           THEN Proceed(c, Idle)
           ELSE Proceed(c, [op |-> "delete", id |-> reqs[c].id,
                            pc |-> "d_splice", orderIndex |-> orderIndex])
    /\ UNCHANGED <<orders, nextId, clock>>

\* DELETE: deletedOrder = orders.splice(orderIndex, 1)[0]
DeleteSplice(c) ==
    /\ CanRun(c)
    /\ reqs[c].pc = "d_splice"
    /\ orders' = Splice(orders, reqs[c].orderIndex)
    /\ Proceed(c, [op |-> "delete", id |-> reqs[c].id, pc |-> "d_respond",
                   deletedOrder |-> orders[reqs[c].orderIndex]])
    /\ UNCHANGED <<nextId, clock>>

\* DELETE: res.json({message, order: deletedOrder})
DeleteRespond(c) ==
    /\ CanRun(c)
    /\ reqs[c].pc = "d_respond"
    /\ Proceed(c, Idle)
    /\ UNCHANGED <<orders, nextId, clock>>

NextConc ==
    \/ \E c \in Clients : \E request \in ConcRequests : Start(c, request)
    \/ \E c \in Clients : PostValidate(c)
    \/ \E c \in Clients : PostBuild(c)
    \/ \E c \in Clients : PostPush(c)
    \/ \E c \in Clients : PostRespond(c)
    \/ \E c \in Clients : ListFilter(c)
    \/ \E c \in Clients : ListRespond(c)
    \/ \E c \in Clients : GetFind(c)
    \/ \E c \in Clients : GetRespond(c)
    \/ \E c \in Clients : PutCheck(c)
    \/ \E c \in Clients : PutFind(c)
    \/ \E c \in Clients : PutSetStatus(c)
    \/ \E c \in Clients : PutSetUpdatedAt(c)
    \/ \E c \in Clients : PutRespond(c)
    \/ \E c \in Clients : DeleteFind(c)
    \/ \E c \in Clients : DeleteSplice(c)
    \/ \E c \in Clients : DeleteRespond(c)

SpecConc == InitConc /\ [][NextConc]_vars

\* ------------------------------------------------- vocabulary of the claims
\* The ids of the orders in array s.
Ids(s) == {s[i].id : i \in 1..Len(s)}

\* The elements of array s.
Elements(s) == {s[i] : i \in 1..Len(s)}

\* The order of array s that carries id (there is one).
OrderWith(s, id) == s[CHOOSE i \in 1..Len(s) : s[i].id = id]

\* How many orders of array s have status st.
CountStatus(s, st) == Cardinality({i \in 1..Len(s) : s[i].status = st})

\* The sum over the line items of price x quantity.
RECURSIVE SumOfLines(_)
SumOfLines(items) ==
    IF items = <<>> THEN 0
    ELSE Head(items).price * Head(items).quantity + SumOfLines(Tail(items))

\* Body b satisfies the order schema of the data model.
SatisfiesSchema(b) ==
    /\ DOMAIN b = {"customerId", "items", "shippingAddress"}
    /\ b.customerId # ""
    /\ Len(b.items) >= 1
    /\ \A i \in 1..Len(b.items) :
          /\ DOMAIN b.items[i] = {"productId", "quantity", "price"}
          /\ b.items[i].productId # ""
          /\ b.items[i].quantity >= 1
          /\ b.items[i].price > 0
    /\ DOMAIN b.shippingAddress = {"street", "city", "zipCode", "country"}
    /\ \A f \in DOMAIN b.shippingAddress : b.shippingAddress[f] # ""

\* Body b has no items, or lacks a field the schema requires.
EmptyOrIncomplete(b) ==
    \/ {"customerId", "items", "shippingAddress"} \ (DOMAIN b) # {}
    \/ b.items = <<>>
    \/ \E i \in 1..Len(b.items) :
          {"productId", "quantity", "price"} \ (DOMAIN b.items[i]) # {}
    \/ {"street", "city", "zipCode", "country"} \ (DOMAIN b.shippingAddress) # {}

\* Schema-satisfying bodies beyond the ones the requests carry.
SchemaBodies ==
    ValidBodies \cup
    { [customerId |-> "customer-123",
       items |-> <<Item("product-1", 2, 2999)>>,
       shippingAddress |-> ValidAddress],
      [customerId |-> "customer-2",
       items |-> <<Item("product-1", 1, 2), Item("product-2", 3, 1),
                   Item("product-3", 2, 5)>>,
       shippingAddress |-> ValidAddress] }

\* An id that was handed out and is no longer in the collection: the id of
\* a deleted order.
Gone(id) == id \in 1..(nextId - 1) /\ id \notin Ids(orders)

\* ------------------------------------------------------------------ claims

\* C1: a create whose input satisfies the order schema succeeds; the stored
\* order has status pending and total = sum of price x quantity; it is the
\* last element of the collection, and the operation that follows finds it:
\* getById(id) returns it and list's filtered set contains it.  Stated of
\* the create just answered, and of the create that any schema-satisfying
\* body would get as the next request.
C1_CreateStoresPendingOrder ==
    /\ (last.op = "create" /\ SatisfiesSchema(last.body)) =>
          /\ last.code = 201
          /\ last.json.status = "pending"
          /\ last.json.total = SumOfLines(last.body.items)
          /\ Len(orders) >= 1
          /\ orders[Len(orders)] = last.json
          /\ GetResult(orders, last.json.id) = Result(orders, 200, last.json)
          /\ \A q \in Queries :
                (~Truthy(q, "status") \/ q.status = "pending") =>
                    /\ last.json \in Elements(Filtered(orders, q))
                    /\ ListResult(orders, q).json.pagination.total >= 1
    /\ last = NoCall =>
        \A body \in SchemaBodies : \A t1 \in Later(clock) : \A t2 \in Later(t1) :
          LET r == PostResult(orders, nextId, t1, t2, body)
          IN  /\ SatisfiesSchema(body)
              /\ r.code = 201
              /\ r.json.status = "pending"
              /\ r.json.total = SumOfLines(body.items)
              /\ r.orders = Append(orders, r.json)
              /\ GetResult(r.orders, r.json.id) = Result(r.orders, 200, r.json)
              /\ r.json \in Elements(Filtered(r.orders, <<>>))
              /\ r.json \in Elements(Filtered(r.orders, [status |-> "pending"]))

\* C1 witness: a valid create has just been answered 201 while an older
\* order, no longer pending, was already stored.
C1_Witness ==
    /\ last.op = "create"
    /\ last.code = 201
    /\ Len(orders) = 2
    /\ orders[1].status = "shipped"
    /\ orders[2] = last.json
    /\ last.json.total = 10

\* C2: a create with zero items, or without a required field, fails with
\* 400 'Validation failed' and leaves the collection exactly as it was.
C2_InvalidCreateChangesNothing ==
    [][(/\ last'.op = "create"
         /\ EmptyOrIncomplete(last'.body)
         /\ PostOrder(last'.body)) =>
            /\ last'.code = 400
            /\ last'.json.error = "Validation failed"
            /\ orders' = orders]_vars

\* C2 witness: a create with an empty items array has just been refused
\* while the collection holds orders.
C2_Witness ==
    /\ last.op = "create"
    /\ last.code = 400
    /\ "items" \in DOMAIN last.body
    /\ last.body.items = <<>>
    /\ Len(orders) = 2

\* C3: when a create breaks several schema constraints at once, the
\* validation error carries one message per violated constraint.
C3_AllViolationsReported ==
    (last.op = "create" /\ last.code = 400) =>
        last.json.details = Violations(last.body)

\* C4: updateStatus checks the status before the id.  An unlisted status
\* gets 400 'Invalid status' whether or not the id exists; a listed status
\* with an id not in the collection gets 404 'Order not found'; the
\* collection is unchanged in both cases.
C4_StatusCheckedBeforeId ==
    [][(last'.op = "update" /\ PutStatus(last'.id, last'.status)) =>
          LET id     == last'.id
              status == last'.status
          IN  /\ status \notin ValidStatusSet =>
                    /\ last'.code = 400
                    /\ last'.json.error = "Invalid status"
                    /\ orders' = orders
              /\ (status \in ValidStatusSet /\ id \notin Ids(orders)) =>
                    /\ last'.code = 404
                    /\ last'.json.error = "Order not found"
                    /\ orders' = orders]_vars

\* C4 witness: an unlisted status sent for an id that is not in the
\* collection (it was deleted) has been answered 400, not 404.
C4_Witness ==
    /\ last.op = "update"
    /\ last.status = "invalid-status"
    /\ last.code = 400
    /\ Gone(last.id)
    /\ Len(orders) = 1

\* C5: an updateStatus with a listed status on a live order succeeds
\* whatever the current status is, the stored status is then the value just
\* applied, the order's updatedAt does not decrease (timestamps compared as
\* strings); and a stored status changes in no other way, so after a
\* sequence of updates it is the last value applied.
C5_LastStatusWins ==
    [][/\ (/\ last'.op = "update"
            /\ last'.id \in Ids(orders)
            /\ last'.status \in ValidStatusSet
            /\ PutStatus(last'.id, last'.status)) =>
             LET id     == last'.id
                 status == last'.status
             IN  /\ last'.code = 200
                 /\ Ids(orders') = Ids(orders)
                 /\ OrderWith(orders', id).status = status
                 /\ last'.json = OrderWith(orders', id)
                 /\ LexLeq(OrderWith(orders, id).updatedAt,
                           OrderWith(orders', id).updatedAt)
       /\ \A id \in Ids(orders) \cap Ids(orders') :
             OrderWith(orders', id).status # OrderWith(orders, id).status =>
                 /\ last'.op = "update"
                 /\ last'.id = id
                 /\ last'.code = 200
                 /\ last'.status = OrderWith(orders', id).status]_vars

\* C5 witness: the second of two orders has been set to pending again by an
\* update at an instant later than its creation.
C5_Witness ==
    /\ last.op = "update"
    /\ last.code = 200
    /\ last.status = "pending"
    /\ last.json.status = "pending"
    /\ last.json.updatedAt # last.json.createdAt
    /\ Len(orders) = 2
    /\ orders[2] = last.json

\* C6 as stated: list with a status filter (a status parameter in the
\* query) returns only orders of that status and reports their number as
\* pagination.total; with no filter the total is the collection's size.
C6_AnyStatusParameterFilters ==
    last.op = "list" =>
        LET q == last.query
            r == last.json
        IN  IF "status" \in DOMAIN q
            THEN /\ \A o \in Elements(r.orders) : o.status = q.status
                 /\ r.pagination.total = CountStatus(orders, q.status)
            ELSE r.pagination.total = Len(orders)

\* C6 amended: list with a non-empty status filter returns only orders of
\* that status, all of them stored, and pagination.total is the number of
\* stored orders of that status; with no status parameter, or an empty
\* one, pagination.total is the size of the whole collection.
C6_NonEmptyStatusFilters ==
    last.op = "list" =>
        LET q == last.query
            r == last.json
        IN  IF "status" \in DOMAIN q /\ q.status # ""
            THEN /\ \A o \in Elements(r.orders) :
                       o.status = q.status /\ o \in Elements(orders)
                 /\ r.pagination.total = CountStatus(orders, q.status)
            ELSE r.pagination.total = Len(orders)

\* C6 witness: a list filtered by shipped has been answered with the one
\* shipped order out of two stored.
C6_Witness ==
    /\ last.op = "list"
    /\ last.query = [status |-> "shipped"]
    /\ Len(orders) = 2
    /\ last.json.pagination.total = 1
    /\ Len(last.json.orders) = 1
    /\ last.json.orders[1].status = "shipped"
    /\ orders[1].status = "pending"

\* C7: for positive page and limit, list returns the contiguous slice of
\* the filtered collection from 0-based index (page-1) x limit up to but
\* excluding page x limit, clipped to its bounds (empty past the end), in
\* insertion order, and pagination.pages = ceil(total / limit); page 2 with
\* limit 1 over exactly two orders is the second-inserted order, pages = 2.
C7_PageIsContiguousSlice ==
    /\ \A i \in 1..Len(orders) : \A j \in 1..Len(orders) :
          i < j => orders[i].id < orders[j].id
    /\ last.op = "list" =>
          LET q     == last.query
              r     == last.json
              f     == Filtered(orders, q)
              page  == PageOf(q)
              limit == LimitOf(q)
              start == (page - 1) * limit
              n     == Cardinality({i \in 1..Len(f) :
                                      start < i /\ i <= page * limit})
          IN  /\ page >= 1 /\ limit >= 1
              /\ last.code = 200
              /\ Len(r.orders) = n
              /\ \A i \in 1..n : r.orders[i] = f[start + i]
              /\ start >= Len(f) => r.orders = <<>>
              /\ r.pagination.pages * limit >= Len(f)
              /\ (r.pagination.pages - 1) * limit < Len(f)
              /\ r.pagination.total = Len(f)
              /\ (Len(orders) = 2 /\ q = [page |-> 2, limit |-> 1]) =>
                    /\ r.orders = <<orders[2]>>
                    /\ r.pagination.pages = 2

\* C7 witness: page 2 with limit 1 has been asked of a collection of
\* exactly two orders.
C7_Witness ==
    /\ last.op = "list"
    /\ last.query = [page |-> 2, limit |-> 1]
    /\ Len(orders) = 2
    /\ last.json.orders = <<orders[2]>>
    /\ last.json.pagination.pages = 2

\* C8: deleting a live id succeeds, removes exactly that order and returns
\* it; from then on the id is never in the collection again, so a second
\* delete, a getById and an updateStatus with a listed status all fail
\* with 404 'Order not found'.
C8_DeletedIsGoneForGood ==
    [][/\ (/\ last'.op = "delete"
            /\ last'.id \in Ids(orders)
            /\ DeleteOrder(last'.id)) =>
               /\ last'.code = 200
               /\ last'.json.order = OrderWith(orders, last'.id)
               /\ orders' = SelectSeq(orders, LAMBDA o : o.id # last'.id)
               /\ Len(orders') = Len(orders) - 1
       /\ \A id \in 1..MaxIds :
             Gone(id) =>
                /\ id \notin Ids(orders')
                /\ (/\ last'.op \in {"delete", "get", "update"}
                    /\ last'.id = id
                    /\ \/ DeleteOrder(id)
                       \/ GetOrder(id)
                       \/ \E status \in ValidStatusSet : PutStatus(id, status)) =>
                       /\ last'.code = 404
                       /\ last'.json = [error |-> "Order not found"]]_vars

\* C8 witness: a further delete of a deleted id has been answered 404 while
\* a younger order is still stored.
C8_Witness ==
    /\ last.op = "delete"
    /\ last.code = 404
    /\ Gone(last.id)
    /\ Len(orders) = 1
    /\ orders[1].id > last.id

\* C9: no two orders of the collection have the same id, and every stored
\* status is one of pending, processing, shipped, delivered, cancelled.
C9_UniqueIdsListedStatuses ==
    /\ \A i \in 1..Len(orders) : \A j \in 1..Len(orders) :
          i # j => orders[i].id # orders[j].id
    /\ \A i \in 1..Len(orders) :
          orders[i].status \in
              {"pending", "processing", "shipped", "delivered", "cancelled"}

\* C9 witness: two orders are stored, both updated since their creation,
\* and an update with an unlisted status has just been refused.
C9_Witness ==
    /\ Len(orders) = 2
    /\ orders[1].status = "cancelled"
    /\ orders[2].status = "delivered"
    /\ last.op = "update"
    /\ last.code = 400

\* The fields of a complete stored order.
OrderKeys ==
    {"id", "customerId", "items", "shippingAddress", "status", "total",
     "createdAt", "updatedAt"}

\* C10: with requests sent concurrently, every mutating operation is atomic
\* with respect to the collection.  While one handler is between its first
\* and its last statement no other handler runs, so no list or getById
\* sees an order half appended, half updated or half removed: what a
\* reader holds is what the collection holds, and every stored order is
\* complete.  An updateStatus (and a delete) writes to the order whose id
\* it looked up, and what an updateStatus answers with, and leaves stored,
\* is its own status: concurrent updates of one order serialize.
C10_HandlersAreAtomic ==
    /\ \A c \in Clients : \A d \in Clients :
          c # d => (reqs[c] = Idle \/ reqs[d] = Idle)
    /\ \A i \in 1..Len(orders) : DOMAIN orders[i] = OrderKeys
    /\ \A c \in Clients :
          /\ reqs[c].pc = "l_respond" =>
                reqs[c].filteredOrders = Filtered(orders, reqs[c].query)
          /\ reqs[c].pc = "g_respond" =>
                /\ reqs[c].order \in Elements(orders)
                /\ reqs[c].order.id = reqs[c].id
          /\ reqs[c].pc \in {"u_status", "u_updatedAt", "u_respond", "d_splice"} =>
                /\ reqs[c].orderIndex \in 1..Len(orders)
                /\ orders[reqs[c].orderIndex].id = reqs[c].id
          /\ reqs[c].pc \in {"u_updatedAt", "u_respond"} =>
                orders[reqs[c].orderIndex].status = reqs[c].status
          /\ reqs[c].pc = "d_respond" =>
                /\ reqs[c].deletedOrder.id = reqs[c].id
                /\ reqs[c].id \notin Ids(orders)

\* C10 witness: an updateStatus is between its two writes (the new status
\* is stored, updatedAt is not yet refreshed) on the second of two stored
\* orders, the first of which was shipped before; no other handler runs.
C10_Witness ==
    \E c \in Clients :
        /\ reqs[c].pc = "u_updatedAt"
        /\ reqs[c].status = "cancelled"
        /\ reqs[c].orderIndex = 2
        /\ Len(orders) = 2
        /\ orders[2].status = "cancelled"
        /\ orders[1].status = "shipped"
        /\ \A d \in Clients \ {c} : reqs[d] = Idle

\* C11 as stated: right after a successful create, the stored order's
\* createdAt equals its updatedAt, however the clock behaves between the
\* steps of create.  The handler reads the clock twice (one new Date() per
\* field), so a clock that advances between the two reads leaves two
\* different timestamps: this fails.
C11_CreatedAtEqualsUpdatedAt ==
    (last.op = "create" /\ last.code = 201) =>
        /\ orders[Len(orders)] = last.json
        /\ orders[Len(orders)].createdAt = orders[Len(orders)].updatedAt

\* C12: a successful updateStatus changes only the status and the updatedAt
\* of the order with the given id.  That order keeps its id, customerId,
\* items, shippingAddress, total and createdAt, every other order is
\* unchanged, and the collection keeps its length and its insertion order;
\* list and getById leave the collection as it is.  No step other than a
\* successful updateStatus of an order changes anything of that order while
\* it is live, so its total and createdAt stay what create set them to (and
\* the total stays the sum of the lines of its items).
C12_UpdateChangesOnlyStatusAndUpdatedAt ==
    [][/\ (last'.op = "update" /\ last'.code = 200) =>
             /\ Len(orders') = Len(orders)
             /\ \A i \in 1..Len(orders) :
                   /\ orders'[i].id = orders[i].id
                   /\ DOMAIN orders'[i] = DOMAIN orders[i]
                   /\ orders[i].id # last'.id => orders'[i] = orders[i]
                   /\ \A k \in OrderKeys \ {"status", "updatedAt"} :
                         orders'[i][k] = orders[i][k]
       /\ last'.op \in {"list", "get"} => orders' = orders
       /\ \A id \in Ids(orders) \cap Ids(orders') :
             \/ OrderWith(orders', id) = OrderWith(orders, id)
             \/ /\ last'.op = "update"
                /\ last'.code = 200
                /\ last'.id = id
                /\ OrderWith(orders', id).total = OrderWith(orders, id).total
                /\ OrderWith(orders', id).createdAt =
                      OrderWith(orders, id).createdAt
       /\ \A i \in 1..Len(orders') :
             orders'[i].total = SumOfLines(orders'[i].items)]_vars

\* C12 witness: of two stored orders the first, created at instant 0, has
\* just been shipped by an update at instant 1; it still carries its
\* creation instant and its total, and the second order is still pending.
C12_Witness ==
    /\ last.op = "update"
    /\ last.code = 200
    /\ last.status = "shipped"
    /\ Len(orders) = 2
    /\ orders[1].id = last.id
    /\ orders[1].status = "shipped"
    /\ orders[1].createdAt = toISOString(0)
    /\ orders[1].updatedAt = toISOString(1)
    /\ orders[1].total = SumOfLines(orders[1].items)
    /\ orders[2].status = "pending"

====
